---- MODULE Spec2Model ----
(***************************************************************************)
(* Model of server.py, the MCP adapter of the assisted-service client.     *)
(* The module start-up (server object, token check, client construction,   *)
(* tool registration, __main__) is a sequence of steps; every tool         *)
(* invocation is a coroutine that runs on the event loop up to the await   *)
(* of asyncio.to_thread, a worker thread that runs the client method, and  *)
(* the resumption of the coroutine with the thread's outcome.              *)
(***************************************************************************)
EXTENDS Naturals, Sequences, FiniteSets, TLC

\* Number of invocation slots the tool-hosting runtime has in flight.
NumInvocations == 2

Invocations == 1..NumInvocations

VARIABLES
  phase,         \* where the module's top-level code stands
  offlinetoken,  \* os.getenv("OFFLINE_TOKEN")
  mcp,           \* the FastMCP server object: "unbound" or "created"
  ai,            \* the AssistedClient: "unbound", "client", or "failed"
  registered,    \* names of the tools registered with mcp
  logfile,       \* log records written by the top-level code
  exitError,     \* the exception that ended the process, if any
  pc,            \* per invocation: "idle", "suspended", "done"
  op,            \* per invocation: the tool invoked
  args,          \* per invocation: the caller's argument assignment
  thread,        \* per invocation: "none", "queued", "running", "done"
  outcome,       \* per invocation: what the client method did
  events,        \* per invocation: its log records and client calls, in order
  result         \* per invocation: what the caller got

vars == << phase, offlinetoken, mcp, ai, registered, logfile, exitError,
           pc, op, args, thread, outcome, events, result >>

startupVars == << phase, offlinetoken, mcp, ai, registered, logfile, exitError >>
invocationVars == << pc, op, args, thread, outcome, events, result >>

---------------------------------------------------------------------------
\* Python values that cross the adapter, and their str() / repr().

PyNone == [t |-> "NoneType"]
PyStr(s) == [t |-> "str", s |-> s]
PyBool(b) == [t |-> "bool", b |-> b]
PyList(items) == [t |-> "list", items |-> items]
PyTuple(items) == [t |-> "tuple", items |-> items]
\* A dict is its insertion-ordered sequence of <<key, value>> pairs.
PyDict(items) == [t |-> "dict", items |-> items]

RECURSIVE py_repr(_)
RECURSIVE JoinRepr(_)
RECURSIVE JoinItems(_)

JoinRepr(items) ==
  IF Len(items) = 0 THEN ""
  ELSE IF Len(items) = 1 THEN py_repr(items[1])
  ELSE py_repr(items[1]) \o ", " \o JoinRepr(Tail(items))

JoinItems(items) ==
  IF Len(items) = 0 THEN ""
  ELSE IF Len(items) = 1 THEN "'" \o items[1][1] \o "': " \o py_repr(items[1][2])
  ELSE "'" \o items[1][1] \o "': " \o py_repr(items[1][2]) \o ", " \o JoinItems(Tail(items))

py_repr(v) ==
  CASE v.t = "NoneType" -> "None"
    [] v.t = "bool" -> IF v.b THEN "True" ELSE "False"
    [] v.t = "str" -> "'" \o v.s \o "'"
    [] v.t = "list" -> "[" \o JoinRepr(v.items) \o "]"
    [] v.t = "tuple" -> IF Len(v.items) = 1 THEN "(" \o py_repr(v.items[1]) \o ",)"
                        ELSE "(" \o JoinRepr(v.items) \o ")"
    [] v.t = "dict" -> "{" \o JoinItems(v.items) \o "}"

py_str(v) == IF v.t = "str" THEN v.s ELSE py_repr(v)

\* str(e) of an exception raised with one message argument.
exc_str(e) == e.msg

Contains(s, sub) ==
  \E k \in 1..(Len(s) + 1) :
     k + Len(sub) - 1 <= Len(s) /\ SubSeq(s, k, k + Len(sub) - 1) = sub

\* dict(): the keys of a pair sequence, and an update that keeps insertion order.
Keys(items) == {items[k][1] : k \in 1..Len(items)}

RECURSIVE Update(_, _)
Update(items, more) ==
  IF Len(more) = 0 THEN items
  ELSE LET kv == more[1]
           upd == IF kv[1] \in Keys(items)
                  THEN [k \in 1..Len(items) |->
                          IF items[k][1] = kv[1] THEN kv ELSE items[k]]
                  ELSE Append(items, kv)
       IN  Update(upd, Tail(more))

Ok(v) == [ok |-> TRUE, value |-> v]
Raise(cls, msg) == [ok |-> FALSE, exc |-> [cls |-> cls, msg |-> msg]]

\* The builtin dict(positional, **kwargs) as create_cluster calls it.
py_dict(pos, kwargs) ==
  CASE pos.t = "dict" -> Ok(PyDict(Update(pos.items, kwargs)))
    [] pos.t = "str" ->
         IF pos.s = "" THEN Ok(PyDict(kwargs))
         ELSE Raise("ValueError",
                "dictionary update sequence element #0 has length 1; 2 is required")
    [] pos.t = "NoneType" -> Raise("TypeError", "'NoneType' object is not iterable")
    [] pos.t = "bool" -> Raise("TypeError", "'bool' object is not iterable")

---------------------------------------------------------------------------
\* The tool functions: signatures, their own log line and the client call
\* each one builds.

ToolNames ==
  << "list_clusters", "list_events", "list_manifests", "create_cluster",
     "delete_cluster", "cluster_info", "update_cluster", "create_manifests",
     "delete_manifests" >>

Tools == {ToolNames[k] : k \in 1..Len(ToolNames)}

ClientMethods ==
  { "list_clusters", "list_events", "list_manifests", "create_cluster",
    "delete_cluster", "get_cluster", "update_cluster", "upload_manifests",
    "delete_manifests" }

\* Caller-supplied argument assignments, by tool.
ClusterNames == {PyStr("c1")}

\* The default, a usual name, and the one string dict() accepts.
CreateClusterNames == {PyNone, PyStr("c1"), PyStr("")}

NoArgs == [p \in {} |-> PyNone]

ArgsOf(o) ==
  CASE o = "list_clusters" -> {NoArgs}
    [] o = "create_cluster" ->
         [cluster_name : CreateClusterNames,
          high_availability_mode : {PyStr("Full")},
          openshift_version : {PyStr("4.18")},
          base_dns_domain : {PyStr("example.com")},
          cluster_network_cidr : {PyStr("10.128.0.0/14")},
          pull_secret : {PyStr("ps")},
          ssh_public_key : {PyNone}]
    [] o = "create_manifests" ->
         [cluster_name : ClusterNames,
          directory : {PyStr("/m")},
          openshift : {PyBool(FALSE), PyBool(TRUE)}]
    [] OTHER -> [cluster_name : ClusterNames]

Params(o) == DOMAIN (CHOOSE a \in ArgsOf(o) : TRUE)

\* cluster_info bound to the listing method instead of get_cluster.
BoundMethodMisbound(o) ==
  CASE o = "cluster_info" -> "list_clusters"
    [] o = "create_manifests" -> "upload_manifests"
    [] OTHER -> o

\* The client method a tool function hands to handle_api_call.
BoundMethod(o) ==
  CASE o = "cluster_info" -> "get_cluster"
    [] o = "create_manifests" -> "upload_manifests"
    [] OTHER -> o

ClientCall(func, posargs, kwargs) == [func |-> func, args |-> posargs, kwargs |-> kwargs]

\* logger.info(...) at the head of each tool function.
ToolLogLine(o, a) ==
  CASE o = "list_clusters" -> "Listing clusters"
    [] o = "list_events" -> "Listing events for cluster: " \o py_str(a.cluster_name)
    [] o = "list_manifests" -> "Listing manifests for cluster: " \o py_str(a.cluster_name)
    [] o = "create_cluster" ->
         "Creating cluster: " \o py_str(a.cluster_name)
           \o ", base_dns_domain: " \o py_str(a.base_dns_domain)
           \o ", version: " \o py_str(a.openshift_version)
           \o ", high_availability_mode: " \o py_str(a.high_availability_mode)
    [] o = "delete_cluster" -> "Deleting cluster: " \o py_str(a.cluster_name)
    [] o = "cluster_info" -> "Getting info for cluster: " \o py_str(a.cluster_name)
    [] o = "update_cluster" -> "Updating cluster: " \o py_str(a.cluster_name)
    [] o = "create_manifests" -> "Creating manifests for cluster: " \o py_str(a.cluster_name)
    [] o = "delete_manifests" -> "Deleting manifests for cluster: " \o py_str(a.cluster_name)

\* The argument expression of the tool's handle_api_call(...): the call it
\* asks for, or the exception its evaluation raises inside the tool function.
ToolCall(o, a) ==
  CASE o = "list_clusters" -> Ok(ClientCall(BoundMethod(o), << >>, << >>))
    [] o = "create_cluster" ->
         LET overrides ==
               py_dict(a.cluster_name,
                       << <<"base_dns_domain", a.base_dns_domain>>,
                          <<"openshift_version", a.openshift_version>>,
                          <<"high_availability_mode", a.high_availability_mode>> >>)
         IN  IF overrides.ok
             THEN Ok(ClientCall(BoundMethod(o), << >>,
                                << <<"overrides", overrides.value>> >>))
             ELSE overrides
    [] o = "create_manifests" ->
         Ok(ClientCall(BoundMethod(o), <<a.cluster_name, a.directory>>,
                       << <<"openshift", PyBool(FALSE)>> >>))
    [] OTHER -> Ok(ClientCall(BoundMethod(o), <<a.cluster_name>>, << >>))

---------------------------------------------------------------------------
\* handle_api_call.

LogRecord(level, text) == [level |-> level, text |-> text]

\* What the client method does with one call: return a value or raise an
\* exception (an instance of Exception, the class the handlers catch).
ReturnValues == {PyList(<<PyStr("a"), PyStr("b")>>), PyNone}

Faults ==
  { [cls |-> "TimeoutError", msg |-> "deadline exceeded"],
    [cls |-> "RuntimeError", msg |-> "boom"] }

Outcomes ==
  {[kind |-> "return", value |-> v] : v \in ReturnValues}
    \cup {[kind |-> "raise", exc |-> e] : e \in Faults}

\* isinstance(e, asyncio.TimeoutError)
IsTimeoutError(e) == e.cls = "TimeoutError"

\* Line 62.
CallingLine(call) ==
  "Calling " \o call.func \o " with args: " \o py_repr(PyTuple(call.args))
    \o ", kwargs: " \o py_repr(PyDict(call.kwargs))

\* The client method called directly, on the event loop's own thread.
RunsOnLoop(call) == "loop"

\* Where the client method runs: asyncio.to_thread hands it to a worker
\* thread and the coroutine leaves the event loop until it completes.
RunsOn(call) == "worker"

\* handle_api_call with the fault's message left out of error_msg.
handle_api_call_no_message(call, out) ==
  IF out.kind = "return"
  THEN [logs |-> << LogRecord("INFO", "result is: " \o py_str(out.value)) >>,
        ret |-> py_str(out.value)]
  ELSE IF IsTimeoutError(out.exc)
  THEN [logs |-> << LogRecord("ERROR", "Operation timed out") >>,
        ret |-> "Operation timed out"]
  ELSE LET error_msg == "Unexpected error in " \o call.func
       IN  [logs |-> << LogRecord("ERROR", error_msg) >>, ret |-> error_msg]

\* handle_api_call with logger.error forgotten in the generic handler.
handle_api_call_silent_error(call, out) ==
  IF out.kind = "return"
  THEN [logs |-> << LogRecord("INFO", "result is: " \o py_str(out.value)) >>,
        ret |-> py_str(out.value)]
  ELSE IF IsTimeoutError(out.exc)
  THEN [logs |-> << LogRecord("ERROR", "Operation timed out") >>,
        ret |-> "Operation timed out"]
  ELSE LET error_msg == "Unexpected error in " \o call.func \o ": "
                          \o exc_str(out.exc)
       IN  [logs |-> << >>, ret |-> error_msg]

\* handle_api_call building its string in a module-level buffer that is
\* never cleared: what earlier invocations returned leaks into this one.
handle_api_call_accumulating(call, out) ==
  LET text == IF out.kind = "return" THEN py_str(out.value)
              ELSE IF IsTimeoutError(out.exc) THEN "Operation timed out"
              ELSE "Unexpected error in " \o call.func \o ": " \o exc_str(out.exc)
      earlier == {j \in Invocations : pc[j] = "done" /\ result[j].kind = "returned"}
      buffer == IF earlier = {} THEN ""
                ELSE result[CHOOSE j \in earlier : TRUE].text
  IN  [logs |-> << LogRecord(IF out.kind = "return" THEN "INFO" ELSE "ERROR",
                             buffer \o text) >>,
       ret |-> buffer \o text]

\* Lines 64-73: the log records written after the call and the string returned.
handle_api_call(call, out) ==
  IF out.kind = "return"
  THEN [logs |-> << LogRecord("INFO", "result is: " \o py_str(out.value)) >>,
        ret |-> py_str(out.value)]
  ELSE IF IsTimeoutError(out.exc)
  THEN [logs |-> << LogRecord("ERROR", "Operation timed out") >>,
        ret |-> "Operation timed out"]
  ELSE LET error_msg == "Unexpected error in " \o call.func \o ": "
                          \o exc_str(out.exc)
       IN  [logs |-> << LogRecord("ERROR", error_msg) >>, ret |-> error_msg]

---------------------------------------------------------------------------
\* Start-up: the module's top-level statements, in order.

NoError == [at |-> 0, exc |-> [cls |-> "", msg |-> ""]]

\* os.getenv: the variable unset, set to the empty string, or set.
TokenValues == {PyNone, PyStr(""), PyStr("tok")}

\* The check written as a comparison with the empty string only.
TokenMissingEmptyOnly(tok) == tok = PyStr("")

\* `not offlinetoken`
TokenMissing(tok) == tok = PyNone \/ tok = PyStr("")

\* What AssistedClient(...) can do: return the client or raise.
CtorFaults == { [cls |-> "ConnectionError", msg |-> "unreachable"] }

\* The handler without its bare `raise`: the failure is logged and swallowed.
OnClientInitErrorSwallowed(e) ==
  [log |-> << LogRecord("ERROR", "Failed to initialize AssistedClient: " \o exc_str(e)) >>,
   reraise |-> FALSE]

\* Lines 55-57: the handler of a failed construction.
OnClientInitError(e) ==
  [log |-> << LogRecord("ERROR", "Failed to initialize AssistedClient: " \o exc_str(e)) >>,
   reraise |-> TRUE]

NoOutcome == [kind |-> "none"]
NoResult == [kind |-> "none"]
Returned(text) == [kind |-> "returned", text |-> text]
Raised(e) == [kind |-> "raised", exc |-> e]

Init ==
  /\ phase = "import"
  /\ offlinetoken \in TokenValues
  /\ mcp = "unbound"
  /\ ai = "unbound"
  /\ registered = {}
  /\ logfile = << >>
  /\ exitError = NoError
  /\ pc = [i \in Invocations |-> "idle"]
  /\ op = [i \in Invocations |-> ""]
  /\ args = [i \in Invocations |-> NoArgs]
  /\ thread = [i \in Invocations |-> "none"]
  /\ outcome = [i \in Invocations |-> NoOutcome]
  /\ events = [i \in Invocations |-> << >>]
  /\ result = [i \in Invocations |-> NoResult]

\* Line 45.
CreateServer ==
  /\ phase = "import"
  /\ mcp' = "created"
  /\ phase' = "token"
  /\ UNCHANGED << offlinetoken, ai, registered, logfile, exitError, invocationVars >>

\* Lines 48-50.
CheckToken ==
  /\ phase = "token"
  /\ IF TokenMissing(offlinetoken)
     THEN /\ phase' = "aborted"
          /\ exitError' = [at |-> 50,
                           exc |-> [cls |-> "ValueError",
                                    msg |-> "OFFLINE_TOKEN environment variable is not set"]]
     ELSE /\ phase' = "client"
          /\ UNCHANGED exitError
  /\ UNCHANGED << offlinetoken, mcp, ai, registered, logfile, invocationVars >>

\* Lines 52-54: construction succeeds.
InitClientOk ==
  /\ phase = "client"
  /\ ai' = "client"
  /\ logfile' = Append(logfile, LogRecord("INFO", "Successfully initialized AssistedClient"))
  /\ phase' = "register"
  /\ UNCHANGED << offlinetoken, mcp, registered, exitError, invocationVars >>

\* Lines 52-57: construction raises.
InitClientRaises ==
  /\ phase = "client"
  /\ \E e \in CtorFaults :
       LET h == OnClientInitError(e)
       IN  /\ ai' = "failed"
           /\ logfile' = logfile \o h.log
           /\ IF h.reraise
              THEN /\ phase' = "aborted"
                   /\ exitError' = [at |-> 57, exc |-> e]
              ELSE /\ phase' = "register"
                   /\ UNCHANGED exitError
  /\ UNCHANGED << offlinetoken, mcp, registered, invocationVars >>

\* Lines 75-167: the @mcp.tool decorators, in source order.
RegisterTool ==
  /\ phase = "register"
  /\ LET k == Cardinality(registered) + 1
     IN  /\ k <= Len(ToolNames)
         /\ registered' = registered \cup {ToolNames[k]}
         /\ phase' = IF k = Len(ToolNames) THEN "main" ELSE "register"
  /\ UNCHANGED << offlinetoken, mcp, ai, logfile, exitError, invocationVars >>

\* Lines 169-172: the server starts serving.
Main ==
  /\ phase = "main"
  /\ logfile' = Append(logfile, LogRecord("INFO", "Starting MCP server..."))
  /\ phase' = "serving"
  /\ UNCHANGED << offlinetoken, mcp, ai, registered, exitError, invocationVars >>

---------------------------------------------------------------------------
\* Invocations.

LogEvent(rec) == [ev |-> "log", level |-> rec.level, text |-> rec.text]
CallEvent(call) == [ev |-> "call", call |-> call]

\* The call invocation i asked handle_api_call for.
CallOf(i) == ToolCall(op[i], args[i]).value

InCall(i) == pc[i] = "suspended" /\ thread[i] \in {"queued", "running"}

\* The event loop is free for invocation i: no other invocation's client
\* method is executing on the loop's own thread.
LoopFree(i) ==
  \A j \in Invocations \ {i} : ~(InCall(j) /\ RunsOn(CallOf(j)) = "loop")

\* A tool coroutine runs from its first line to the await of to_thread
\* (lines 62-63), or to the exception its argument expression raises.
\* Slots are numbered in order of arrival.
Invoke(i) ==
  /\ phase = "serving"
  /\ pc[i] = "idle"
  /\ \A j \in Invocations : j < i => pc[j] # "idle"
  /\ LoopFree(i)
  /\ \E o \in registered : \E a \in ArgsOf(o) :
       LET line == LogEvent(LogRecord("INFO", ToolLogLine(o, a)))
           c == ToolCall(o, a)
       IN  /\ op' = [op EXCEPT ![i] = o]
           /\ args' = [args EXCEPT ![i] = a]
           /\ IF c.ok
              THEN /\ events' = [events EXCEPT ![i] =
                        << line, LogEvent(LogRecord("INFO", CallingLine(c.value))) >>]
                   /\ pc' = [pc EXCEPT ![i] = "suspended"]
                   /\ thread' = [thread EXCEPT ![i] = "queued"]
                   /\ UNCHANGED result
              ELSE /\ events' = [events EXCEPT ![i] = << line >>]
                   /\ pc' = [pc EXCEPT ![i] = "done"]
                   /\ result' = [result EXCEPT ![i] = Raised(c.exc)]
                   /\ UNCHANGED thread
  /\ UNCHANGED << startupVars, outcome >>

\* The thread calls the client method.
ThreadStart(i) ==
  /\ pc[i] = "suspended"
  /\ thread[i] = "queued"
  /\ thread' = [thread EXCEPT ![i] = "running"]
  /\ events' = [events EXCEPT ![i] = Append(@, CallEvent(CallOf(i)))]
  /\ UNCHANGED << startupVars, pc, op, args, outcome, result >>

\* The client method returns or raises.
ThreadFinish(i) ==
  /\ pc[i] = "suspended"
  /\ thread[i] = "running"
  /\ \E out \in Outcomes : outcome' = [outcome EXCEPT ![i] = out]
  /\ thread' = [thread EXCEPT ![i] = "done"]
  /\ UNCHANGED << startupVars, pc, op, args, events, result >>

\* The coroutine resumes with the thread's outcome (lines 64-73).
Resume(i) ==
  /\ pc[i] = "suspended"
  /\ thread[i] = "done"
  /\ LoopFree(i)
  /\ LET r == handle_api_call(CallOf(i), outcome[i])
     IN  /\ events' = [events EXCEPT ![i] =
                          @ \o [k \in 1..Len(r.logs) |-> LogEvent(r.logs[k])]]
         /\ result' = [result EXCEPT ![i] = Returned(r.ret)]
  /\ pc' = [pc EXCEPT ![i] = "done"]
  /\ UNCHANGED << startupVars, op, args, thread, outcome >>

Next ==
  \/ CreateServer
  \/ CheckToken
  \/ InitClientOk
  \/ InitClientRaises
  \/ RegisterTool
  \/ Main
  \/ \E i \in Invocations : Invoke(i)
  \/ \E i \in Invocations : ThreadStart(i)
  \/ \E i \in Invocations : ThreadFinish(i)
  \/ \E i \in Invocations : Resume(i)

Spec == Init /\ [][Next]_vars

---------------------------------------------------------------------------
\* Properties.

Done(i) == pc[i] = "done"
CallMade(i) == thread[i] \in {"running", "done"}

LogsOf(i) == SelectSeq(events[i], LAMBDA e : e.ev = "log")
CallsOf(i) == SelectSeq(events[i], LAMBDA e : e.ev = "call")

\* Position of the first client call among the events of invocation i
\* (past the end when no call was made).
CallIndex(i) ==
  IF \E k \in 1..Len(events[i]) : events[i][k].ev = "call"
  THEN CHOOSE k \in 1..Len(events[i]) :
         /\ events[i][k].ev = "call"
         /\ \A m \in 1..(k - 1) : events[i][m].ev # "call"
  ELSE Len(events[i]) + 1
LogsBeforeCall(i) == {k \in 1..Len(events[i]) : k < CallIndex(i) /\ events[i][k].ev = "log"}

\* C1: every invocation of a registered operation ends by returning one
\* string to the caller and never raises to the caller.
C1_EveryInvocationReturnsString ==
  \A i \in Invocations : Done(i) => result[i].kind = "returned"

\* C2: for every registered operation, an invocation whose client stub does
\* not raise but returns a fixed value yields that value's string form.
C2_ResultIsStrOfValue ==
  \A i \in Invocations :
     (Done(i) /\ outcome[i].kind # "raise")
       => /\ outcome[i].kind = "return"
          /\ result[i] = Returned(py_str(outcome[i].value))

\* C3 as stated: when the client stub raises any fault, a timeout included,
\* the result is a string that contains the operation's name and the
\* fault's message.
C3_ErrorNamesOperationAndMessage ==
  \A i \in Invocations :
     (Done(i) /\ outcome[i].kind = "raise")
       => /\ result[i].kind = "returned"
          /\ Contains(result[i].text, op[i])
          /\ Contains(result[i].text, outcome[i].exc.msg)

\* The client method each operation is said to be bound to.
ClaimedMethod(o) ==
  CASE o = "list_clusters" -> "list_clusters"
    [] o = "list_events" -> "list_events"
    [] o = "list_manifests" -> "list_manifests"
    [] o = "create_cluster" -> "create_cluster"
    [] o = "delete_cluster" -> "delete_cluster"
    [] o = "cluster_info" -> "get_cluster"
    [] o = "update_cluster" -> "update_cluster"
    [] o = "create_manifests" -> "upload_manifests"
    [] o = "delete_manifests" -> "delete_manifests"

\* C3 amended: when the bound client method raises a fault, the invocation
\* returns a string and never raises: "Operation timed out" for a timeout
\* fault, and otherwise "Unexpected error in <method>: <message>", which
\* contains the name of the bound client method (not the operation's name
\* where they differ) and the fault's message.
C3_ErrorStringOfFault ==
  \A i \in Invocations :
     (Done(i) /\ outcome[i].kind = "raise")
       => /\ result[i].kind = "returned"
          /\ IF outcome[i].exc.cls = "TimeoutError"
             THEN result[i].text = "Operation timed out"
             ELSE result[i].text =
                    "Unexpected error in " \o ClaimedMethod(op[i]) \o ": "
                      \o outcome[i].exc.msg

\* C3 witness: cluster_info ended after get_cluster raised a fault that is
\* not a timeout.
C3_Witness ==
  \E i \in Invocations :
     /\ Done(i)
     /\ op[i] = "cluster_info"
     /\ outcome[i].kind = "raise"
     /\ outcome[i].exc.cls # "TimeoutError"

\* A call passes value v for parameter p: positionally, as the keyword p, or
\* as entry p of the overrides dict.
Passes(call, p, v) ==
  \/ \E k \in 1..Len(call.args) : call.args[k] = v
  \/ \E k \in 1..Len(call.kwargs) : call.kwargs[k] = <<p, v>>
  \/ \E k \in 1..Len(call.kwargs) :
        /\ call.kwargs[k][1] = "overrides"
        /\ \E m \in 1..Len(call.kwargs[k][2].items) :
              call.kwargs[k][2].items[m] = <<p, v>>

\* C4: the bound client method is invoked with the caller-supplied value of
\* every parameter of the operation, unchanged.
C4_ArgumentsForwarded ==
  \A i \in Invocations :
     CallMade(i) =>
       \A p \in DOMAIN args[i] : Passes(CallsOf(i)[1].call, p, args[i][p])

\* C5: with OFFLINE_TOKEN unset, start-up ends at the token check: no client
\* object is constructed, no operation is registered, the server never
\* serves and no invocation ever starts.
C5_NoTokenNoService ==
  offlinetoken = PyNone =>
    /\ ai = "unbound"
    /\ registered = {}
    /\ phase \in {"import", "token", "aborted"}
    /\ \A i \in Invocations : pc[i] = "idle" /\ events[i] = << >>

\* C5 witness: the token check has failed on an unset variable.
C5_Witness ==
  /\ offlinetoken = PyNone
  /\ phase = "aborted"
  /\ exitError.at = 50

\* Some tool and arguments can be invoked in slot j.
CanInvoke(j) == ENABLED Invoke(j)
CanStart(j) == ENABLED ThreadStart(j)
CanFinish(j) == ENABLED ThreadFinish(j)
CanResume(j) == ENABLED Resume(j)

\* C6: while one invocation is suspended on its worker thread, every step
\* of another invocation is possible: the next arrival can start, its
\* thread can call and complete, and its coroutine can resume and finish.
C6_NonBlocking ==
  \A i \in Invocations : \A j \in Invocations \ {i} :
     InCall(i) =>
       /\ (pc[j] = "idle" /\ \A k \in Invocations : k < j => pc[k] # "idle")
             => CanInvoke(j)
       /\ (pc[j] = "suspended" /\ thread[j] = "queued") => CanStart(j)
       /\ (pc[j] = "suspended" /\ thread[j] = "running") => CanFinish(j)
       /\ (pc[j] = "suspended" /\ thread[j] = "done") => CanResume(j)

\* C6 witness: the first arrival is still blocked in its client method on a
\* worker thread, and the second arrival, which started later, has run its
\* own client method and returned its string.
C6_Witness ==
  /\ NumInvocations >= 2
  /\ pc[1] = "suspended" /\ thread[1] = "running"
  /\ pc[2] = "done" /\ thread[2] = "done" /\ result[2].kind = "returned"

\* C7: when construction of the client raises, the failure is logged as an
\* error and re-raised: start-up aborts, no operation is registered and the
\* server never serves.
C7_ClientInitFailureAborts ==
  ai = "failed" =>
    /\ phase = "aborted"
    /\ exitError.at = 57
    /\ Len(logfile) = 1
    /\ logfile[1].level = "ERROR"
    /\ Contains(logfile[1].text, exitError.exc.msg)
    /\ registered = {}
    /\ \A i \in Invocations : pc[i] = "idle" /\ events[i] = << >>

\* C7 witness: the constructor raised.
C7_Witness == ai = "failed" /\ phase = "aborted"

\* C8 as stated: an invocation that makes its client call has written
\* exactly one log line before it.
C8_OneLogLineBeforeCall ==
  \A i \in Invocations :
     CallMade(i) => Cardinality(LogsBeforeCall(i)) = 1

\* C8 amended: each invocation writes one log line from its tool function;
\* if it reaches handle_api_call it writes exactly one more line before the
\* client call (the method and its arguments) and exactly one after it (the
\* result at INFO on success, the error at ERROR on a fault), in that order,
\* and no other line.
C8_LogLinesOfInvocation ==
  \A i \in Invocations :
     LET E == events[i]
         calling == "Calling " \o ClaimedMethod(op[i])
     IN  /\ Len(E) <= 4
         /\ Len(E) >= 1 =>
              /\ E[1].ev = "log" /\ E[1].level = "INFO"
              /\ SubSeq(E[1].text, 1, 8) # "Calling "
         /\ Len(E) >= 2 =>
              /\ E[2].ev = "log" /\ E[2].level = "INFO"
              /\ SubSeq(E[2].text, 1, Len(calling)) = calling
         /\ Len(E) >= 3 => E[3].ev = "call"
         /\ Len(E) >= 4 =>
              /\ E[4].ev = "log"
              /\ Done(i)
              /\ IF outcome[i].kind = "return"
                 THEN /\ E[4].level = "INFO"
                      /\ E[4].text = "result is: " \o result[i].text
                 ELSE /\ E[4].level = "ERROR"
                      /\ E[4].text = result[i].text
         /\ CallMade(i) <=> Len(E) >= 3
         /\ (Done(i) /\ result[i].kind = "returned") => Len(E) = 4
         /\ (Done(i) /\ result[i].kind = "raised") => Len(E) = 1

\* C8 witness: an invocation ended after its client method raised a fault
\* that is not a timeout.
C8_Witness ==
  \E i \in Invocations :
     /\ Done(i)
     /\ outcome[i].kind = "raise"
     /\ outcome[i].exc.cls # "TimeoutError"
     /\ Len(LogsOf(i)) = 3

\* C9: an invocation calls the client method bound to its operation at most
\* once and no other client method; a failed call is not retried.
C9_AtMostOneBoundCall ==
  \A i \in Invocations :
     LET E == events[i]
     IN  /\ \A k \in 1..Len(E) :
              E[k].ev = "call" =>
                /\ E[k].call.func = ClaimedMethod(op[i])
                /\ \A m \in 1..Len(E) : m # k => E[m].ev # "call"
         /\ (Done(i) /\ outcome[i].kind = "raise") =>
              \E k \in 1..Len(E) : E[k].ev = "call"

\* C9 witness: cluster_info ended after its one call of get_cluster failed.
C9_Witness ==
  \E i \in Invocations :
     /\ Done(i)
     /\ op[i] = "cluster_info"
     /\ outcome[i].kind = "raise"
     /\ Len(CallsOf(i)) = 1

====
